---- MODULE Spec2Model ----
(***************************************************************************)
(* Model of DB::IFactoryWithAliases<CreatorFunc>                           *)
(* (dbms/src/Common/IFactoryWithAliases.h): the two alias maps of a        *)
(* factory, registerAlias and the query operations, over the creator maps  *)
(* a derived factory provides.                                             *)
(*                                                                         *)
(* A String is a sequence of one-character strings, so that Poco::toLower  *)
(* is computed character by character.  An unordered_map<String, String>   *)
(* is a function whose DOMAIN is its key set; an unordered_map<String,     *)
(* Creator> is modelled by its key set (creators are opaque here).         *)
(***************************************************************************)
EXTENDS Integers, Sequences, FiniteSets, TLC

VARIABLES
    live,                           \* the factory objects that exist
    creator_map,                    \* [factory -> keys of getCreatorMap()]
    case_insensitive_creator_map,   \* [factory -> keys of getCaseInsensitiveCreatorMap()]
    aliases,                        \* [factory -> AliasMap]
    case_insensitive_aliases,       \* [factory -> AliasMap]
    registered_names,               \* the function-local static of getHints
    calls,                          \* number of registerAlias calls made so far
    registered,                     \* history: the registerAlias calls that returned normally
    last                            \* the last call: its arguments and its outcome

vars == <<live, creator_map, case_insensitive_creator_map, aliases,
          case_insensitive_aliases, registered_names, calls, registered, last>>

-----------------------------------------------------------------------------
(* Bounds *)

\* registerAlias calls made in one behaviour
MaxRegisterCalls == 2

-----------------------------------------------------------------------------
(* Strings *)

Sum == <<"S", "u", "m">>
SUM == <<"S", "U", "M">>
sum == <<"s", "u", "m">>
Max == <<"M", "a", "x">>
max == <<"m", "a", "x">>

\* the strings passed as arguments
Names == {Sum, SUM, sum, Max, max}

\* Poco::toLower on one character (ASCII)
toLowerChar(c) ==
    CASE c = "S" -> "s"
      [] c = "U" -> "u"
      [] c = "M" -> "m"
      [] c = "A" -> "a"
      [] c = "X" -> "x"
      [] OTHER -> c

\* Poco::toLower(str)
toLower(str) == [k \in DOMAIN str |-> toLowerChar(str[k])]

\* the empty String
EmptyString == <<>>

\* the empty map
EmptyMap == [k \in {} |-> EmptyString]

\* std::unordered_map::count(key) != 0
count(map, key) == key \in DOMAIN map

\* mutant of emplace: assigns like operator[], so an existing key is overwritten
emplace_assign(map, key, value) ==
    [map |-> [k \in DOMAIN map \cup {key} |-> IF k = key THEN value ELSE map[k]],
     second |-> TRUE]

\* std::unordered_map::emplace(key, value): inserts unless the key is present;
\* .second tells whether the insertion took place
emplace(map, key, value) ==
    IF key \in DOMAIN map
    THEN [map |-> map, second |-> FALSE]
    ELSE [map |-> [k \in DOMAIN map \cup {key} |-> IF k = key THEN value ELSE map[k]],
          second |-> TRUE]

-----------------------------------------------------------------------------
(* The code of IFactoryWithAliases, as operators over the maps *)

\* enum CaseSensitiveness
CaseSensitive == "CaseSensitive"
CaseInsensitive == "CaseInsensitive"
CaseSensitiveness == {CaseSensitive, CaseInsensitive}

\* the exceptions thrown (all LOGICAL_ERROR), told apart by the throw site
NoError == "NoError"
UnknownRealName == "UnknownRealName"
AliasShadowsCanonical == "AliasShadowsCanonical"
DuplicateCaseInsensitiveAlias == "DuplicateCaseInsensitiveAlias"
DuplicateAlias == "DuplicateAlias"
NotAnAlias == "NotAnAlias"

\* mutant of real_dict_name: the name found through the case-insensitive
\* creator map is kept as written, not lowercased
real_dict_name_verbatim(cm, cicm, real_name) ==
    IF real_name \in cm \/ toLower(real_name) \in cicm
    THEN [found |-> TRUE, name |-> real_name]
    ELSE [found |-> FALSE, name |-> EmptyString]

\* mutant of real_dict_name: the final else does not throw
real_dict_name_nothrow(cm, cicm, real_name) ==
    IF real_name \in cm
    THEN [found |-> TRUE, name |-> real_name]
    ELSE [found |-> TRUE, name |-> toLower(real_name)]

\* registerAlias, lines 55-62: the name the alias will point to; found is
\* FALSE where the code throws "the real name ... is not registered"
real_dict_name(cm, cicm, real_name) ==
    IF real_name \in cm
    THEN [found |-> TRUE, name |-> real_name]
    ELSE IF toLower(real_name) \in cicm
         THEN [found |-> TRUE, name |-> toLower(real_name)]
         ELSE [found |-> FALSE, name |-> EmptyString]

\* mutant of isRealName: only the case-sensitive creator map is consulted
isRealName_exact(cm, cicm, alias_name) ==
    alias_name \in cm

\* mutant of isRealName: the case-insensitive creator map is searched for the
\* alias name as written
isRealName_literal(cm, cicm, alias_name) ==
    alias_name \in cm \/ alias_name \in cicm

\* registerAlias, line 66: the alias name is already registered as real name
isRealName(cm, cicm, alias_name) ==
    alias_name \in cm \/ toLower(alias_name) \in cicm

\* mutant of insertAlias: the case-sensitive insertion is made first
insertAlias_swapped(al, cial, alias_name, target, case_sensitiveness) ==
    LET cs == emplace(al, alias_name, target)
        ci == IF case_sensitiveness = CaseInsensitive
              THEN emplace(cial, toLower(alias_name), target)
              ELSE [map |-> cial, second |-> TRUE]
    IN  IF ~cs.second
        THEN [aliases |-> al, case_insensitive_aliases |-> cial,
              error |-> DuplicateAlias]
        ELSE IF ~ci.second
             THEN [aliases |-> cs.map, case_insensitive_aliases |-> cial,
                   error |-> DuplicateCaseInsensitiveAlias]
             ELSE [aliases |-> cs.map, case_insensitive_aliases |-> ci.map,
                   error |-> NoError]

\* mutant of insertAlias: both keys are checked before either is inserted
insertAlias_atomic(al, cial, alias_name, target, case_sensitiveness) ==
    IF case_sensitiveness = CaseInsensitive /\ toLower(alias_name) \in DOMAIN cial
    THEN [aliases |-> al, case_insensitive_aliases |-> cial,
          error |-> DuplicateCaseInsensitiveAlias]
    ELSE IF alias_name \in DOMAIN al
         THEN [aliases |-> al, case_insensitive_aliases |-> cial,
               error |-> DuplicateAlias]
         ELSE [aliases |-> emplace(al, alias_name, target).map,
               case_insensitive_aliases |->
                   IF case_sensitiveness = CaseInsensitive
                   THEN emplace(cial, toLower(alias_name), target).map
                   ELSE cial,
               error |-> NoError]

\* mutant of insertAlias: a case-insensitive alias goes to the case-insensitive
\* alias map only
insertAlias_either(al, cial, alias_name, target, case_sensitiveness) ==
    IF case_sensitiveness = CaseInsensitive
    THEN LET ci == emplace(cial, toLower(alias_name), target)
         IN  IF ~ci.second
             THEN [aliases |-> al, case_insensitive_aliases |-> cial,
                   error |-> DuplicateCaseInsensitiveAlias]
             ELSE [aliases |-> al, case_insensitive_aliases |-> ci.map,
                   error |-> NoError]
    ELSE LET cs == emplace(al, alias_name, target)
         IN  IF ~cs.second
             THEN [aliases |-> al, case_insensitive_aliases |-> cial,
                   error |-> DuplicateAlias]
             ELSE [aliases |-> cs.map, case_insensitive_aliases |-> cial,
                   error |-> NoError]

\* registerAlias, lines 70-76: the two insertions, in the code's order
insertAlias(al, cial, alias_name, target, case_sensitiveness) ==
    LET ci == IF case_sensitiveness = CaseInsensitive
              THEN emplace(cial, toLower(alias_name), target)
              ELSE [map |-> cial, second |-> TRUE]
        cs == emplace(al, alias_name, target)
    IN  IF ~ci.second
        THEN [aliases |-> al, case_insensitive_aliases |-> cial,
              error |-> DuplicateCaseInsensitiveAlias]
        ELSE IF ~cs.second
             THEN [aliases |-> al, case_insensitive_aliases |-> ci.map,
                   error |-> DuplicateAlias]
             ELSE [aliases |-> cs.map, case_insensitive_aliases |-> ci.map,
                   error |-> NoError]

\* registerAlias(alias_name, real_name, case_sensitiveness): the maps after
\* the call and the exception it ends with, if any
registerAlias(cm, cicm, al, cial, alias_name, real_name, case_sensitiveness) ==
    LET real == real_dict_name(cm, cicm, real_name)
    IN  IF ~real.found
        THEN [aliases |-> al, case_insensitive_aliases |-> cial,
              error |-> UnknownRealName]
        ELSE IF isRealName(cm, cicm, alias_name)
             THEN [aliases |-> al, case_insensitive_aliases |-> cial,
                   error |-> AliasShadowsCanonical]
             ELSE insertAlias(al, cial, alias_name, real.name, case_sensitiveness)

\* mutant of getAliasToOrName: the case-insensitive alias map is searched for
\* the name as written
getAliasToOrName_literal(al, cial, name) ==
    IF count(al, name)
    THEN al[name]
    ELSE IF count(cial, name)
         THEN cial[name]
         ELSE name

\* getAliasToOrName(name)
getAliasToOrName(al, cial, name) ==
    IF count(al, name)
    THEN al[name]
    ELSE IF count(cial, toLower(name))
         THEN cial[toLower(name)]
         ELSE name

\* mutant of aliasTo: only the case-sensitive alias map is searched
aliasTo_exact(al, cial, name) ==
    IF name \in DOMAIN al
    THEN [error |-> NoError, str |-> al[name]]
    ELSE [error |-> NotAnAlias, str |-> EmptyString]

\* mutant of aliasTo: the case-insensitive alias map is searched for the
\* name as written
aliasTo_literal(al, cial, name) ==
    IF name \in DOMAIN al
    THEN [error |-> NoError, str |-> al[name]]
    ELSE IF name \in DOMAIN cial
         THEN [error |-> NoError, str |-> cial[name]]
         ELSE [error |-> NotAnAlias, str |-> EmptyString]

\* aliasTo(name): the String returned, or the exception
aliasTo(al, cial, name) ==
    IF name \in DOMAIN al
    THEN [error |-> NoError, str |-> al[name]]
    ELSE IF toLower(name) \in DOMAIN cial
         THEN [error |-> NoError, str |-> cial[toLower(name)]]
         ELSE [error |-> NotAnAlias, str |-> EmptyString]

\* isAlias(name)
isAlias(al, cial, name) ==
    count(al, name) \/ count(cial, name)

\* isCaseInsensitive(name)
isCaseInsensitive(cicm, cial, name) ==
    toLower(name) \in cicm \/ count(cial, toLower(name))

\* the orders in which iterating over an unordered container can visit keys
Iterations(keys) ==
    {s \in [1..Cardinality(keys) -> keys] : \A k \in keys : \E n \in DOMAIN s : s[n] = k}

\* getAllRegisteredNames(): the vectors the call can return, the creator map's
\* keys and then the alias map's, each in its container's iteration order
getAllRegisteredNames(cm, al) ==
    {s1 \o s2 : s1 \in Iterations(cm), s2 \in Iterations(DOMAIN al)}

-----------------------------------------------------------------------------
(* The state machine: factories and the calls made on them *)

\* the factory objects (all of one IFactoryWithAliases<CreatorFunc> class)
Factories == {"factory1", "factory2"}

\* the creator maps a derived factory can hold when aliases get registered:
\* the keys of its case-insensitive map are lowercase
Providers ==
    { [creators |-> {Sum},      case_insensitive_creators |-> {}],
      [creators |-> {Sum, max}, case_insensitive_creators |-> {max}],
      [creators |-> {Sum},      case_insensitive_creators |-> {max}] }

\* the record of a call
Call(op, self, name, real_name, case_sensitiveness, error, str, flag, names) ==
    [op |-> op, self |-> self, name |-> name, real_name |-> real_name,
     case_sensitiveness |-> case_sensitiveness, error |-> error,
     str |-> str, flag |-> flag, names |-> names]

NoCall ==
    Call("none", "factory1", EmptyString, EmptyString, CaseSensitive, NoError,
         EmptyString, FALSE, <<>>)

\* one factory exists; its creator maps are filled before any alias is registered
Init ==
    /\ live = {"factory1"}
    /\ \E p \in Providers :
         /\ creator_map = [f \in Factories |->
                IF f \in live THEN p.creators ELSE {}]
         /\ case_insensitive_creator_map = [f \in Factories |->
                IF f \in live THEN p.case_insensitive_creators ELSE {}]
    /\ aliases = [f \in Factories |-> EmptyMap]
    /\ case_insensitive_aliases = [f \in Factories |-> EmptyMap]
    /\ registered_names = [initialized |-> FALSE, value |-> <<>>]
    /\ calls = 0
    /\ registered = {}
    /\ last = NoCall

RegisterAlias(self, alias_name, real_name, case_sensitiveness) ==
    /\ calls < MaxRegisterCalls
    /\ LET r == registerAlias(creator_map[self], case_insensitive_creator_map[self],
                              aliases[self], case_insensitive_aliases[self],
                              alias_name, real_name, case_sensitiveness)
       IN  /\ aliases' = [aliases EXCEPT ![self] = r.aliases]
           /\ case_insensitive_aliases' =
                  [case_insensitive_aliases EXCEPT ![self] = r.case_insensitive_aliases]
           /\ registered' =
                  IF r.error = NoError
                  THEN registered \cup
                         {[self |-> self, alias_name |-> alias_name,
                           real_name |-> real_name,
                           case_sensitiveness |-> case_sensitiveness,
                           hinted |-> registered_names.initialized]}
                  ELSE registered
           /\ last' = Call("registerAlias", self, alias_name, real_name,
                           case_sensitiveness, r.error, EmptyString, FALSE, <<>>)
    /\ calls' = calls + 1
    /\ UNCHANGED <<live, creator_map, case_insensitive_creator_map, registered_names>>

\* mutant of GetAliasToOrName: the lookup is made with operator[], which
\* inserts an absent key with an empty String
GetAliasToOrName_subscript(self, name) ==
    /\ aliases' = [aliases EXCEPT
                     ![self] = emplace(aliases[self], name, EmptyString).map]
    /\ last' = Call("getAliasToOrName", self, name, EmptyString, CaseSensitive, NoError,
                    getAliasToOrName(aliases[self], case_insensitive_aliases[self], name),
                    FALSE, <<>>)
    /\ UNCHANGED <<live, creator_map, case_insensitive_creator_map,
                   case_insensitive_aliases, registered_names, calls, registered>>

GetAliasToOrName(self, name) ==
    /\ last' = Call("getAliasToOrName", self, name, EmptyString, CaseSensitive, NoError,
                    getAliasToOrName(aliases[self], case_insensitive_aliases[self], name),
                    FALSE, <<>>)
    /\ UNCHANGED <<live, creator_map, case_insensitive_creator_map, aliases,
                   case_insensitive_aliases, registered_names, calls, registered>>

AliasTo(self, name) ==
    /\ LET r == aliasTo(aliases[self], case_insensitive_aliases[self], name)
       IN  last' = Call("aliasTo", self, name, EmptyString, CaseSensitive, r.error,
                        r.str, FALSE, <<>>)
    /\ UNCHANGED <<live, creator_map, case_insensitive_creator_map, aliases,
                   case_insensitive_aliases, registered_names, calls, registered>>

IsAlias(self, name) ==
    /\ last' = Call("isAlias", self, name, EmptyString, CaseSensitive, NoError,
                    EmptyString,
                    isAlias(aliases[self], case_insensitive_aliases[self], name), <<>>)
    /\ UNCHANGED <<live, creator_map, case_insensitive_creator_map, aliases,
                   case_insensitive_aliases, registered_names, calls, registered>>

IsCaseInsensitive(self, name) ==
    /\ last' = Call("isCaseInsensitive", self, name, EmptyString, CaseSensitive, NoError,
                    EmptyString,
                    isCaseInsensitive(case_insensitive_creator_map[self],
                                      case_insensitive_aliases[self], name), <<>>)
    /\ UNCHANGED <<live, creator_map, case_insensitive_creator_map, aliases,
                   case_insensitive_aliases, registered_names, calls, registered>>

\* mutant of GetAllRegisteredNames: the keys of the case-insensitive alias map
\* are appended as well
GetAllRegisteredNames_withCaseInsensitive(self) ==
    /\ \E result \in getAllRegisteredNames(creator_map[self], aliases[self]),
          more \in Iterations(DOMAIN case_insensitive_aliases[self]) :
         last' = Call("getAllRegisteredNames", self, EmptyString, EmptyString,
                      CaseSensitive, NoError, EmptyString, FALSE, result \o more)
    /\ UNCHANGED <<live, creator_map, case_insensitive_creator_map, aliases,
                   case_insensitive_aliases, registered_names, calls, registered>>

GetAllRegisteredNames(self) ==
    /\ \E result \in getAllRegisteredNames(creator_map[self], aliases[self]) :
         last' = Call("getAllRegisteredNames", self, EmptyString, EmptyString,
                      CaseSensitive, NoError, EmptyString, FALSE, result)
    /\ UNCHANGED <<live, creator_map, case_insensitive_creator_map, aliases,
                   case_insensitive_aliases, registered_names, calls, registered>>

\* mutant of GetHints: registered_names is a plain local, computed by every call
GetHints_refresh(self, name) ==
    /\ \E result \in getAllRegisteredNames(creator_map[self], aliases[self]) :
         registered_names' = [initialized |-> TRUE, value |-> result]
    /\ last' = Call("getHints", self, name, EmptyString, CaseSensitive, NoError,
                    EmptyString, FALSE, registered_names'.value)
    /\ UNCHANGED <<live, creator_map, case_insensitive_creator_map, aliases,
                   case_insensitive_aliases, calls, registered>>

\* getHints(name): the static registered_names is initialized by the first call
\* that reaches its declaration; last'.names is the vector handed to
\* prompter.getHints (NamePrompter's ranking is outside this class)
GetHints(self, name) ==
    /\ \E result \in getAllRegisteredNames(creator_map[self], aliases[self]) :
         registered_names' =
             IF registered_names.initialized
             THEN registered_names
             ELSE [initialized |-> TRUE, value |-> result]
    /\ last' = Call("getHints", self, name, EmptyString, CaseSensitive, NoError,
                    EmptyString, FALSE, registered_names'.value)
    /\ UNCHANGED <<live, creator_map, case_insensitive_creator_map, aliases,
                   case_insensitive_aliases, calls, registered>>

Next ==
    \/ \E self \in live, alias_name \in Names, real_name \in Names,
          case_sensitiveness \in CaseSensitiveness :
           RegisterAlias(self, alias_name, real_name, case_sensitiveness)
    \/ \E self \in live, name \in Names : GetAliasToOrName(self, name)
    \/ \E self \in live, name \in Names : AliasTo(self, name)
    \/ \E self \in live, name \in Names : IsAlias(self, name)
    \/ \E self \in live, name \in Names : IsCaseInsensitive(self, name)
    \/ \E self \in live : GetAllRegisteredNames(self)
    \/ \E self \in live, name \in Names : GetHints(self, name)

Spec == Init /\ [][Next]_vars

\* two factories of the same class exist, with different creator maps
InitTwo ==
    /\ live = Factories
    /\ creator_map = [f \in Factories |-> IF f = "factory1" THEN {Sum} ELSE {max}]
    /\ case_insensitive_creator_map =
           [f \in Factories |-> IF f = "factory1" THEN {} ELSE {max}]
    /\ aliases = [f \in Factories |-> EmptyMap]
    /\ case_insensitive_aliases = [f \in Factories |-> EmptyMap]
    /\ registered_names = [initialized |-> FALSE, value |-> <<>>]
    /\ calls = 0
    /\ registered = {}
    /\ last = NoCall

SpecTwo == InitTwo /\ [][Next]_vars

-----------------------------------------------------------------------------
(* Vocabulary of the properties, stated over the creator maps directly *)

\* real_name is registered: a key of the creator map, or lowercased a key of
\* the case-insensitive creator map
KnownRealName(f, real_name) ==
    \/ real_name \in creator_map[f]
    \/ toLower(real_name) \in case_insensitive_creator_map[f]

\* the canonical target of real_name
CanonicalTarget(f, real_name) ==
    IF real_name \in creator_map[f] THEN real_name ELSE toLower(real_name)

\* name is an existing canonical name
CanonicalName(f, name) ==
    \/ name \in creator_map[f]
    \/ toLower(name) \in case_insensitive_creator_map[f]

\* the step is a call of registerAlias
RegisterAliasStep == last'.op = "registerAlias" /\ calls' = calls + 1

\* the step leaves both alias maps as they were
AliasMapsUnchanged ==
    aliases' = aliases /\ case_insensitive_aliases' = case_insensitive_aliases

\* the query operations
QueryOps ==
    {"getAliasToOrName", "isAlias", "isCaseInsensitive", "getAllRegisteredNames",
     "getHints"}

\* the failed registerAlias calls left an entry behind: a key of the
\* case-insensitive alias map that no successful call inserted
LeftBehind(f) ==
    {k \in DOMAIN case_insensitive_aliases[f] :
        ~ \E h \in registered : /\ h.self = f
                                /\ h.case_sensitiveness = CaseInsensitive
                                /\ toLower(h.alias_name) = k}

\* the elements of a vector
Elements(names) == {names[k] : k \in DOMAIN names}

-----------------------------------------------------------------------------
(* C1: every registerAlias(alias, real, mode) call that returned normally   *)
(* makes getAliasToOrName(alias) and aliasTo(alias) return the canonical    *)
(* target of real (real itself if it is a key of the creator map, else      *)
(* lowercase(real)), in the state after the call and in every later state;  *)
(* an aliasTo or getAliasToOrName call on the alias returns that target.    *)
C1_RegisteredAliasResolves ==
    \A h \in registered :
        LET target == CanonicalTarget(h.self, h.real_name)
        IN  /\ getAliasToOrName(aliases[h.self], case_insensitive_aliases[h.self],
                                h.alias_name) = target
            /\ aliasTo(aliases[h.self], case_insensitive_aliases[h.self],
                       h.alias_name) = [error |-> NoError, str |-> target]
            /\ (last.op \in {"aliasTo", "getAliasToOrName"}
                  /\ last.self = h.self /\ last.name = h.alias_name)
               => (last.error = NoError /\ last.str = target)

\* aliasTo was called on an alias registered for a real name that resolved
\* through the case-insensitive creator map, after a later registration
C1_Witness ==
    \E h \in registered :
        /\ h.real_name \notin creator_map[h.self]
        /\ Cardinality(registered) = 2
        /\ last.op = "aliasTo" /\ last.self = h.self /\ last.name = h.alias_name
        /\ last.str = toLower(h.real_name)
        /\ last.str # h.real_name

(* C2: a name x that no successful registerAlias call registered as alias,  *)
(* and whose lowercased form is the lowercased alias of no successful       *)
(* case-insensitive registerAlias call, is returned unchanged by            *)
(* getAliasToOrName.                                                        *)
C2_UnregisteredNameUnchanged ==
    \A f \in live, x \in Names :
        ( /\ ~ \E h \in registered : h.self = f /\ h.alias_name = x
          /\ ~ \E h \in registered :
                 /\ h.self = f
                 /\ h.case_sensitiveness = CaseInsensitive
                 /\ toLower(h.alias_name) = toLower(x) )
        => getAliasToOrName(aliases[f], case_insensitive_aliases[f], x) = x

(* C3: registerAlias(a, r, mode) with r neither a key of the creator map    *)
(* nor, lowercased, a key of the case-insensitive creator map throws        *)
(* UnknownRealName and leaves both alias maps as they were.                 *)
C3_UnknownRealNameFails ==
    [][ (RegisterAliasStep /\ ~KnownRealName(last'.self, last'.real_name))
        => (last'.error = UnknownRealName /\ AliasMapsUnchanged) ]_vars

\* a call with an unknown real name failed while an alias was registered
C3_Witness ==
    /\ last.op = "registerAlias"
    /\ ~KnownRealName(last.self, last.real_name)
    /\ last.error = UnknownRealName
    /\ registered # {}
    /\ DOMAIN aliases[last.self] # {}

(* C4 as stated: registerAlias(alias_name, real, mode) with alias_name an    *)
(* existing canonical name throws AliasShadowsCanonical for every real name  *)
(* and both modes.                                                           *)
C4_Original ==
    (last.op = "registerAlias" /\ CanonicalName(last.self, last.name))
    => last.error = AliasShadowsCanonical

(* C4 amended: registerAlias(alias_name, real, mode) with alias_name an      *)
(* existing canonical name always fails, in both modes: with                 *)
(* AliasShadowsCanonical for every known real name, and with UnknownRealName *)
(* (thrown first) when the real name is not known.                           *)
C4_CanonicalAliasFails ==
    (last.op = "registerAlias" /\ CanonicalName(last.self, last.name))
    => /\ last.error = IF KnownRealName(last.self, last.real_name)
                       THEN AliasShadowsCanonical
                       ELSE UnknownRealName
       /\ \A h \in registered : ~(h.self = last.self /\ h.alias_name = last.name)

\* a case-insensitive registration of a name that is canonical only through
\* the case-insensitive creator map was refused
C4_Witness ==
    /\ last.op = "registerAlias"
    /\ last.case_sensitiveness = CaseInsensitive
    /\ last.name \notin creator_map[last.self]
    /\ CanonicalName(last.self, last.name)
    /\ last.error = AliasShadowsCanonical

(* C5: after registerAlias(a, r1) in CaseSensitive mode returned normally,   *)
(* a later registerAlias(a, r2) in CaseSensitive mode with a known r2 throws *)
(* DuplicateAlias, changes neither alias map, and the case-sensitive alias   *)
(* map still maps a to the target of the first registration.                 *)
C5_DuplicateAliasFails ==
    [][ \A h \in registered :
          ( /\ RegisterAliasStep
            /\ h.case_sensitiveness = CaseSensitive
            /\ last'.self = h.self
            /\ last'.name = h.alias_name
            /\ last'.case_sensitiveness = CaseSensitive
            /\ KnownRealName(last'.self, last'.real_name) )
          => /\ last'.error = DuplicateAlias
             /\ AliasMapsUnchanged
             /\ h.alias_name \in DOMAIN aliases'[h.self]
             /\ aliases'[h.self][h.alias_name] = CanonicalTarget(h.self, h.real_name)
      ]_vars

\* the second registration named another real name and was refused
C5_Witness ==
    \E h \in registered :
        /\ h.case_sensitiveness = CaseSensitive
        /\ last.op = "registerAlias"
        /\ last.self = h.self /\ last.name = h.alias_name
        /\ last.case_sensitiveness = CaseSensitive
        /\ CanonicalTarget(last.self, last.real_name)
             # CanonicalTarget(h.self, h.real_name)
        /\ last.error = DuplicateAlias

(* C6: after registerAlias(a1, r1, CaseInsensitive) returned normally, a     *)
(* later registerAlias(a2, r2, CaseInsensitive) with a2 # a1,                *)
(* lowercase(a2) = lowercase(a1), a known r2 and a2 no canonical name throws *)
(* DuplicateCaseInsensitiveAlias and inserts nothing into either alias map.  *)
C6_DuplicateCaseInsensitiveAliasFails ==
    [][ \A h \in registered :
          ( /\ RegisterAliasStep
            /\ h.case_sensitiveness = CaseInsensitive
            /\ last'.self = h.self
            /\ last'.case_sensitiveness = CaseInsensitive
            /\ last'.name # h.alias_name
            /\ toLower(last'.name) = toLower(h.alias_name)
            /\ KnownRealName(last'.self, last'.real_name)
            /\ ~CanonicalName(last'.self, last'.name) )
          => /\ last'.error = DuplicateCaseInsensitiveAlias
             /\ AliasMapsUnchanged
      ]_vars

\* the second alias differs from the first only in case, was not yet a key of
\* the case-sensitive alias map, and was refused
C6_Witness ==
    \E h \in registered :
        /\ h.case_sensitiveness = CaseInsensitive
        /\ last.op = "registerAlias"
        /\ last.self = h.self
        /\ last.case_sensitiveness = CaseInsensitive
        /\ last.name # h.alias_name
        /\ toLower(last.name) = toLower(h.alias_name)
        /\ last.name \notin DOMAIN aliases[last.self]
        /\ last.error = DuplicateCaseInsensitiveAlias

(* C7 as stated: for every name x, aliasTo(x) throws NotAnAlias exactly when *)
(* isAlias(x) returns false.                                                 *)
C7_Original ==
    \A f \in live, x \in Names :
        (aliasTo(aliases[f], case_insensitive_aliases[f], x).error = NotAnAlias)
        <=> ~isAlias(aliases[f], case_insensitive_aliases[f], x)

(* C7 amended: for every name x, if aliasTo(x) throws NotAnAlias then        *)
(* isAlias(x) returns false (whenever isAlias(x) is true aliasTo(x) returns  *)
(* a target); the converse fails: aliasTo(x) returns a target also when      *)
(* isAlias(x) is false and lowercase(x) is a key of the case-insensitive     *)
(* alias map, and throws only when x is no key of the case-sensitive alias   *)
(* map and lowercase(x) no key of the case-insensitive one.                  *)
C7_AliasToFailsOnlyIfNotAlias ==
    \A f \in live, x \in Names :
        LET r == aliasTo(aliases[f], case_insensitive_aliases[f], x)
        IN  /\ isAlias(aliases[f], case_insensitive_aliases[f], x)
                 => (r.error = NoError /\ r.str \in Names)
            /\ (r.error = NotAnAlias)
                 <=> ( /\ x \notin DOMAIN aliases[f]
                       /\ toLower(x) \notin DOMAIN case_insensitive_aliases[f] )
            /\ (last.op = "aliasTo" /\ last.self = f /\ last.name = x)
                 => last.error = r.error

\* aliasTo returned a target for a name that isAlias accepts only as a key of
\* the case-insensitive alias map
C7_Witness ==
    /\ last.op = "aliasTo"
    /\ last.error = NoError
    /\ last.name \notin DOMAIN aliases[last.self]
    /\ isAlias(aliases[last.self], case_insensitive_aliases[last.self], last.name)

(* C8 as stated: with creator map {"Sum"} and an empty case-insensitive      *)
(* creator map, after registerAlias("SUM", "Sum", CaseInsensitive) returned  *)
(* normally, aliasTo("Sum") throws NotAnAlias.                               *)
C8_Original ==
    ( /\ creator_map[last.self] = {Sum}
      /\ case_insensitive_creator_map[last.self] = {}
      /\ \E h \in registered :
            /\ h.self = last.self /\ h.alias_name = SUM /\ h.real_name = Sum
            /\ h.case_sensitiveness = CaseInsensitive
      /\ last.op = "aliasTo" /\ last.name = Sum )
    => last.error = NotAnAlias

(* C8 amended: in that scenario aliasTo("Sum") returns "Sum", because        *)
(* lowercase("Sum") = "sum" is a key of the case-insensitive alias map;      *)
(* aliasTo applied to a key of the creator map throws NotAnAlias exactly     *)
(* when its lowercased form is no key of the case-insensitive alias map.     *)
C8_AliasToCanonicalName ==
    /\ ( /\ creator_map[last.self] = {Sum}
         /\ case_insensitive_creator_map[last.self] = {}
         /\ \E h \in registered :
               /\ h.self = last.self /\ h.alias_name = SUM /\ h.real_name = Sum
               /\ h.case_sensitiveness = CaseInsensitive
         /\ last.op = "aliasTo" /\ last.name = Sum )
       => (last.error = NoError /\ last.str = Sum)
    /\ (last.op = "aliasTo" /\ last.name \in creator_map[last.self])
       => ( (last.error = NotAnAlias)
            <=> toLower(last.name) \notin DOMAIN case_insensitive_aliases[last.self] )

\* the scenario of C8: aliasTo("Sum") was called after "SUM" was registered
C8_Witness ==
    /\ creator_map[last.self] = {Sum}
    /\ case_insensitive_creator_map[last.self] = {}
    /\ \E h \in registered :
          /\ h.self = last.self /\ h.alias_name = SUM /\ h.real_name = Sum
          /\ h.case_sensitiveness = CaseInsensitive
    /\ last.op = "aliasTo" /\ last.name = Sum
    /\ last.str = Sum

(* C9: the vector getAllRegisteredNames() returns holds the keys of the      *)
(* creator map followed by the keys of the case-sensitive alias map, each    *)
(* once and nothing else; a key of the case-insensitive alias map or of the  *)
(* case-insensitive creator map that is in neither of those two maps is not  *)
(* in it.                                                                    *)
C9_AllRegisteredNames ==
    last.op = "getAllRegisteredNames" =>
        LET f == last.self
            n == Cardinality(creator_map[f])
            m == Cardinality(DOMAIN aliases[f])
        IN  /\ Len(last.names) = n + m
            /\ {last.names[k] : k \in 1..n} = creator_map[f]
            /\ {last.names[k] : k \in (n+1)..(n+m)} = DOMAIN aliases[f]
            /\ \A j, k \in DOMAIN last.names : j # k => last.names[j] # last.names[k]
            /\ \A x \in DOMAIN case_insensitive_aliases[f]
                        \cup case_insensitive_creator_map[f] :
                   x \notin creator_map[f] \cup DOMAIN aliases[f]
                       => x \notin Elements(last.names)

\* getAllRegisteredNames() was called while "sum" was a key of the
\* case-insensitive alias map only
C9_Witness ==
    /\ last.op = "getAllRegisteredNames"
    /\ sum \in DOMAIN case_insensitive_aliases[last.self]
    /\ sum \notin DOMAIN aliases[last.self]
    /\ SUM \in Elements(last.names)
    /\ Sum \in Elements(last.names)

(* C10: the vector getHints hands to the prompter is the value               *)
(* getAllRegisteredNames() had when getHints was first called, and no later  *)
(* call changes it: in every getHints call, an alias registered by a         *)
(* successful registerAlias call made after the first getHints call is not   *)
(* in the vector, and every alias registered before it is.                   *)
C10_HintsSnapshot ==
    [][ /\ registered_names.initialized => registered_names' = registered_names
        /\ (~registered_names.initialized /\ registered_names'.initialized)
             => /\ last'.op = "getHints"
                /\ Elements(registered_names'.value)
                     = creator_map[last'.self] \cup DOMAIN aliases[last'.self]
        /\ last'.op = "getHints"
             => /\ registered_names'.initialized
                /\ last'.names = registered_names'.value
                /\ \A h \in registered' :
                     h.self = last'.self =>
                         (h.alias_name \in Elements(last'.names)) <=> ~h.hinted
      ]_vars

\* getHints was called after an alias was registered before the first
\* getHints call and another one after it
C10_Witness ==
    /\ last.op = "getHints"
    /\ \E h \in registered : h.self = last.self /\ h.hinted
                             /\ h.alias_name \notin Elements(last.names)
    /\ \E h \in registered : h.self = last.self /\ ~h.hinted
                             /\ h.alias_name \in Elements(last.names)

(* C11: no key of the case-sensitive alias map is a key of the creator map,  *)
(* and no key of either alias map, lowercased, is a key of the               *)
(* case-insensitive creator map.                                             *)
C11_AliasesShadowNoCanonicalName ==
    \A f \in live :
        /\ \A k \in DOMAIN aliases[f] :
               /\ k \notin creator_map[f]
               /\ toLower(k) \notin case_insensitive_creator_map[f]
        /\ \A k \in DOMAIN case_insensitive_aliases[f] :
               toLower(k) \notin case_insensitive_creator_map[f]

\* both alias maps hold an entry of a factory with both creator maps filled,
\* and a registration of a name that is canonical once lowercased was refused
C11_Witness ==
    /\ last.op = "registerAlias"
    /\ last.error = AliasShadowsCanonical
    /\ last.name \notin creator_map[last.self]
    /\ last.name \notin case_insensitive_creator_map[last.self]
    /\ DOMAIN aliases[last.self] # {}
    /\ DOMAIN case_insensitive_aliases[last.self] # {}

(* C12: every value stored in the case-sensitive alias map and in the        *)
(* case-insensitive alias map is a key of the creator map or of the          *)
(* case-insensitive creator map, and is no key of the case-sensitive alias   *)
(* map: an alias points to a canonical name, not to an alias or to an        *)
(* unknown name.                                                             *)
C12_TargetsAreCanonical ==
    \A f \in live :
        /\ \A k \in DOMAIN aliases[f] :
               /\ aliases[f][k] \in creator_map[f] \cup case_insensitive_creator_map[f]
               /\ aliases[f][k] \notin DOMAIN aliases[f]
        /\ \A k \in DOMAIN case_insensitive_aliases[f] :
               /\ case_insensitive_aliases[f][k]
                      \in creator_map[f] \cup case_insensitive_creator_map[f]
               /\ case_insensitive_aliases[f][k] \notin DOMAIN aliases[f]

\* an alias points to a key of the case-insensitive creator map that is no key
\* of the creator map, reached from a real name written in another case
C12_Witness ==
    \E h \in registered :
        /\ h.case_sensitiveness = CaseInsensitive
        /\ h.real_name \notin creator_map[h.self]
        /\ h.real_name \notin case_insensitive_creator_map[h.self]
        /\ aliases[h.self][h.alias_name] \in case_insensitive_creator_map[h.self]
        /\ case_insensitive_aliases[h.self][toLower(h.alias_name)]
               \notin creator_map[h.self]

(* C13: once a key k maps to a target t in the case-sensitive alias map or   *)
(* in the case-insensitive alias map, k maps to t in that map after every    *)
(* step, whichever call the step is.                                         *)
C13_AliasEntriesAppendOnly ==
    [][ \A f \in live :
          /\ \A k \in DOMAIN aliases[f] :
                 k \in DOMAIN aliases'[f] /\ aliases'[f][k] = aliases[f][k]
          /\ \A k \in DOMAIN case_insensitive_aliases[f] :
                 /\ k \in DOMAIN case_insensitive_aliases'[f]
                 /\ case_insensitive_aliases'[f][k] = case_insensitive_aliases[f][k]
      ]_vars

\* a registration naming another target for a key both maps hold was refused
C13_Witness ==
    /\ last.op = "registerAlias"
    /\ last.error \in {DuplicateAlias, DuplicateCaseInsensitiveAlias}
    /\ toLower(last.name) \in DOMAIN case_insensitive_aliases[last.self]
    /\ last.name \in DOMAIN aliases[last.self]
    /\ KnownRealName(last.self, last.real_name)
    /\ CanonicalTarget(last.self, last.real_name) # aliases[last.self][last.name]
    /\ CanonicalTarget(last.self, last.real_name)
           # case_insensitive_aliases[last.self][toLower(last.name)]

(* C14: in every state, also after failed registerAlias calls, each of      *)
(* getAliasToOrName, isAlias, isCaseInsensitive, getAllRegisteredNames and   *)
(* getHints returns a value without throwing, for every name, and leaves     *)
(* both alias maps as they were.                                             *)
C14_QueriesNeverFail ==
    [][ last'.op \in QueryOps
        => /\ last'.error = NoError
           /\ AliasMapsUnchanged
           /\ last'.op = "getAliasToOrName"
                => last'.str \in {last'.name}
                       \cup creator_map[last'.self]
                       \cup case_insensitive_creator_map[last'.self]
           /\ last'.op \in {"getAllRegisteredNames", "getHints"}
                => Elements(last'.names) \subseteq Names
      ]_vars

\* a query was answered from maps in which a failed registerAlias call had
\* left an entry
C14_Witness ==
    /\ last.op = "getAliasToOrName"
    /\ toLower(last.name) \in LeftBehind(last.self)
    /\ last.name \notin DOMAIN aliases[last.self]
    /\ last.str # last.name

(* C15: registerAlias(a, r, CaseInsensitive) with a known r, a already a key *)
(* of the case-sensitive alias map and lowercase(a) no key of the            *)
(* case-insensitive alias map throws DuplicateAlias, and afterwards the      *)
(* case-insensitive alias map holds the entry lowercase(a) -> target of r in *)
(* addition, while the case-sensitive alias map is as it was; a call ending  *)
(* in UnknownRealName, AliasShadowsCanonical or                              *)
(* DuplicateCaseInsensitiveAlias leaves both maps as they were.              *)
C15_RegisterAliasNotAtomic ==
    [][ RegisterAliasStep =>
          LET f == last'.self
              a == last'.name
          IN  /\ ( /\ last'.case_sensitiveness = CaseInsensitive
                   /\ KnownRealName(f, last'.real_name)
                   /\ a \in DOMAIN aliases[f]
                   /\ toLower(a) \notin DOMAIN case_insensitive_aliases[f] )
                 => /\ last'.error = DuplicateAlias
                    /\ aliases' = aliases
                    /\ DOMAIN case_insensitive_aliases'[f]
                         = DOMAIN case_insensitive_aliases[f] \cup {toLower(a)}
                    /\ case_insensitive_aliases'[f][toLower(a)]
                         = CanonicalTarget(f, last'.real_name)
                    /\ \A k \in DOMAIN case_insensitive_aliases[f] :
                         case_insensitive_aliases'[f][k] = case_insensitive_aliases[f][k]
              /\ last'.error \in {UnknownRealName, AliasShadowsCanonical,
                                  DuplicateCaseInsensitiveAlias}
                 => AliasMapsUnchanged
      ]_vars

\* a failed call left its case-insensitive entry behind
C15_Witness ==
    /\ last.op = "registerAlias"
    /\ last.case_sensitiveness = CaseInsensitive
    /\ last.error = DuplicateAlias
    /\ toLower(last.name) \in LeftBehind(last.self)
    /\ registered_names.initialized = FALSE

(* C16: every key of the case-insensitive alias map is the lowercased form   *)
(* of a key of the case-sensitive alias map, also after failed registerAlias *)
(* calls.                                                                    *)
C16_CaseInsensitiveKeysHaveAlias ==
    \A f \in live :
        \A k \in DOMAIN case_insensitive_aliases[f] :
            \E a \in DOMAIN aliases[f] : toLower(a) = k

\* getAllRegisteredNames() was called while the case-insensitive alias map
\* held a key left by a failed call: the vector holds an alias lowercasing to it
C16_Witness ==
    /\ last.op = "getAllRegisteredNames"
    /\ LeftBehind(last.self) # {}
    /\ \A k \in LeftBehind(last.self) :
           \E a \in Elements(last.names) \ creator_map[last.self] : toLower(a) = k

(* C17 as stated: after registerAlias(a, r, CaseInsensitive) returned        *)
(* normally with target t, getAliasToOrName(x) returns t for every name x    *)
(* with lowercase(x) = lowercase(a), whatever else was registered.           *)
C17_Original ==
    \A h \in registered :
        h.case_sensitiveness = CaseInsensitive =>
            \A x \in Names :
                toLower(x) = toLower(h.alias_name) =>
                    getAliasToOrName(aliases[h.self], case_insensitive_aliases[h.self], x)
                        = CanonicalTarget(h.self, h.real_name)

(* C17 amended: after registerAlias(a, r, CaseInsensitive) returned normally *)
(* with target t, getAliasToOrName(x) returns t for every name x with        *)
(* lowercase(x) = lowercase(a) that is not itself a key of the               *)
(* case-sensitive alias map; for an x that is such a key, it returns the     *)
(* target registered for x, because the case-sensitive alias map is          *)
(* consulted first.                                                          *)
C17_CaseInsensitiveResolution ==
    \A h \in registered :
        h.case_sensitiveness = CaseInsensitive =>
            \A x \in Names :
                toLower(x) = toLower(h.alias_name) =>
                    LET got == getAliasToOrName(aliases[h.self],
                                                case_insensitive_aliases[h.self], x)
                    IN  /\ x \notin DOMAIN aliases[h.self]
                             => got = CanonicalTarget(h.self, h.real_name)
                        /\ x \in DOMAIN aliases[h.self]
                             => \E g \in registered :
                                    /\ g.self = h.self /\ g.alias_name = x
                                    /\ got = CanonicalTarget(g.self, g.real_name)
                        /\ (last.op = "getAliasToOrName" /\ last.self = h.self
                              /\ last.name = x)
                             => last.str = got

\* getAliasToOrName was called on another spelling of a case-insensitive
\* alias, while a second alias was registered for another target
C17_Witness ==
    \E h \in registered :
        /\ h.case_sensitiveness = CaseInsensitive
        /\ last.op = "getAliasToOrName" /\ last.self = h.self
        /\ last.name # h.alias_name
        /\ last.name # toLower(h.alias_name)
        /\ toLower(last.name) = toLower(h.alias_name)
        /\ last.str = CanonicalTarget(h.self, h.real_name)
        /\ \E g \in registered :
              CanonicalTarget(g.self, g.real_name) # last.str

(* C18: for every key c of the creator map, getAliasToOrName(c) returns c:   *)
(* no registered alias makes a canonical name resolve to another entry.      *)
C18_CanonicalNameNotRedirected ==
    \A f \in live :
        \A c \in creator_map[f] :
            getAliasToOrName(aliases[f], case_insensitive_aliases[f], c) = c

(* C19: when two factories of one class both call getHints, the vector each  *)
(* hands to the prompter is its own getAllRegisteredNames() as of its own    *)
(* first getHints call: it holds every key of the factory's own creator map, *)
(* and nothing but keys of its own creator map and of its own                *)
(* case-sensitive alias map.                                                 *)
C19_HintsSnapshotPerFactory ==
    last.op = "getHints" =>
        /\ creator_map[last.self] \subseteq Elements(last.names)
        /\ Elements(last.names)
               \subseteq creator_map[last.self] \cup DOMAIN aliases[last.self]

====
